---- MODULE Spec2Model ----
(***************************************************************************)
(* Model of src/fib.c: main() resets x = 0, y = 1, then in a do/while loop *)
(* prints x and advances (z = x + y; x = y; y = z) while x < 255, and      *)
(* repeats this forever in an enclosing while (1).                         *)
(*                                                                         *)
(* x, y, z and pc are the program's state.  output, cycle and cycles are   *)
(* observers of the printf calls: output is the first MaxLines values      *)
(* written, cycle the values written since the last reset (first MaxCycle  *)
(* of them), cycles the value lists of the first MaxCycles finished runs   *)
(* of the inner loop.  Each printed line is recorded as the int passed to  *)
(* printf("%d\n", x).                                                      *)
(***************************************************************************)
EXTENDS Integers, Sequences, FiniteSets, TLC

VARIABLES x, y, z, pc, output, cycle, cycles

vars == <<x, y, z, pc, output, cycle, cycles>>

\* ---- bounds of the observers ----
MaxLines == 31
MaxCycle == 18
MaxCycles == 3
MaxFibIndex == 16

\* ---- program constants ----
IntMin == -2147483647 - 1
IntMax == 2147483647
Limit == 255

\* a controlling expression that compares equal to 0
OuterCondZero == 0 # 0

\* the controlling expression 1 of while (1), line 8: true iff nonzero
OuterCond == 1 # 0

InRange(v) == v >= IntMin /\ v <= IntMax

\* Values an uninitialised int (line 4) may hold when main starts.
Uninit == {IntMin, -1, 0, 377, IntMax}

\* TRUE iff the mathematical sum a + b is representable as an int.
AddFits(a, b) == IF b >= 0 THEN a <= IntMax - b ELSE a >= IntMin - b

\* TRUE iff the mathematical difference a - b is representable as an int.
SubFits(a, b) == IF b >= 0 THEN a >= IntMin + b ELSE a <= IntMax + b

\* a + b reduced modulo 2^32 into the int range, for a sum that does not fit.
Wrapped(a, b) ==
  IF b >= 0 THEN (a + IntMin) + (b + IntMin) ELSE (a - IntMin) + (b - IntMin)

\* Results a build may produce for a signed addition that overflows.
Overflowed(a, b) == {Wrapped(a, b), IntMin, -1, 0, IntMax}

\* a - b in place of a + b
SubInt(a, b) ==
  IF SubFits(a, b) THEN {a - b} ELSE {IntMin, -1, 0, IntMax}

\* int + int of line 13: the exact sum when it fits, otherwise undefined.
AddInt(a, b) ==
  IF AddFits(a, b) THEN {a + b} ELSE Overflowed(a, b)

\* condition that is true up to 9 bits instead of 8
ContinueWide(v) == v < 2 * Limit

\* condition that never stops on a non-negative value
ContinueNonNeg(v) == v >= 0

\* while (x < 255) of line 16
Continue(v) == v < Limit

\* Append v to s unless s already holds max entries.
Capture(s, v, max) == IF Len(s) < max THEN Append(s, v) ELSE s

Init ==
  /\ x \in Uninit
  /\ y \in Uninit
  /\ z \in Uninit
  /\ pc = "reset"
  /\ output = <<>>
  /\ cycle = <<>>
  /\ cycles = <<>>

\* reset that forgets y = 1
ResetNoY ==
  /\ pc = "reset"
  /\ x' = 0
  /\ pc' = "emit"
  /\ cycle' = <<>>
  /\ UNCHANGED <<y, z, output, cycles>>

\* lines 8-10: while (1) { x = 0; y = 1;
Reset ==
  /\ pc = "reset"
  /\ IF OuterCond
       THEN /\ x' = 0
            /\ y' = 1
            /\ pc' = "emit"
            /\ cycle' = <<>>
            /\ UNCHANGED <<z, output, cycles>>
       ELSE /\ pc' = "exit"
            /\ UNCHANGED <<x, y, z, output, cycle, cycles>>

\* line 12: printf("%d\n", x);
Emit ==
  /\ pc = "emit"
  /\ output' = Capture(output, x, MaxLines)
  /\ cycle' = Capture(cycle, x, MaxCycle)
  /\ pc' = "update"
  /\ UNCHANGED <<x, y, z, cycles>>

\* x = y executed before z = x + y
UpdateShiftFirst ==
  /\ pc = "update"
  /\ z' \in AddInt(y, y)
  /\ x' = y
  /\ y' = z'
  /\ pc' = "test"
  /\ UNCHANGED <<output, cycle, cycles>>

\* x = y left out
UpdateNoShift ==
  /\ pc = "update"
  /\ z' \in AddInt(x, y)
  /\ x' = x
  /\ y' = z'
  /\ pc' = "test"
  /\ UNCHANGED <<output, cycle, cycles>>

\* lines 13-15: z = x + y; x = y; y = z;
Update ==
  /\ pc = "update"
  /\ z' \in AddInt(x, y)
  /\ x' = y
  /\ y' = z'
  /\ pc' = "test"
  /\ UNCHANGED <<output, cycle, cycles>>

\* line 16: } while (x < 255);   a false condition ends the body of while (1)
LoopTest ==
  /\ pc = "test"
  /\ IF Continue(x)
       THEN /\ pc' = "emit"
            /\ UNCHANGED cycles
       ELSE /\ pc' = "reset"
            /\ cycles' = Capture(cycles, cycle, MaxCycles)
  /\ UNCHANGED <<x, y, z, output, cycle>>

Next == Reset \/ Emit \/ Update \/ LoopTest

Spec == Init /\ [][Next]_vars

\* The process is single-threaded and always runs its next statement.
FairSpec == Spec /\ WF_vars(Next)

\* ---- helpers of the properties ----

RECURSIVE Fib(_)
Fib(k) == IF k = 0 THEN 0 ELSE IF k = 1 THEN 1 ELSE Fib(k - 1) + Fib(k - 2)

\* The Fibonacci numbers below 255, in order.
FibBelowLimit == <<0, 1, 1, 2, 3, 5, 8, 13, 21, 34, 55, 89, 144, 233>>

\* The same list followed by 377.
FibThrough377 == <<0, 1, 1, 2, 3, 5, 8, 13, 21, 34, 55, 89, 144, 233, 377>>

IsPrefix(s, t) == Len(s) <= Len(t) /\ \A i \in 1..Len(s) : s[i] = t[i]

\* s is the repetition of the list t, cut off anywhere.
IsRepetitionOf(s, t) == \A i \in 1..Len(s) : s[i] = t[((i - 1) % Len(t)) + 1]

\* A run of the inner loop has just ended and the reset has not yet run.
CycleEnded == pc = "reset" /\ cycle # <<>>

\* Every recorded run of the inner loop, finished or not, emitted t.
CyclesEmit(t) ==
  /\ \A i \in DOMAIN cycles : cycles[i] = t
  /\ IsPrefix(cycle, t)
  /\ CycleEnded => cycle = t

\* ---- C1 ----
\* C1 as stated: every cycle emits exactly 0, 1, 1, 2, ..., 233, 377 between
\* two resets, and the output begins with these 15 values.
C1_CycleIsFibThrough377 ==
  /\ CyclesEmit(FibThrough377)
  /\ IsRepetitionOf(output, FibThrough377)

\* C1 amended: every cycle emits exactly the 14 values 0, 1, 1, 2, ..., 233
\* between two resets; the first 14 lines of output are these values and
\* line 15 is 0 again.
C1_CycleIsFibBelowLimit ==
  /\ CyclesEmit(FibBelowLimit)
  /\ IsRepetitionOf(output, FibBelowLimit)
  /\ Len(output) >= 15 => output[15] = 0

C1_Witness ==
  /\ Len(cycles) >= 2
  /\ Len(output) >= 15
  /\ CycleEnded

\* ---- C2 ----
\* C2 as stated: the value of x that makes the inner condition false (377)
\* is among the values emitted before the restart, and the value emitted
\* right after 377 is 0.
C2_ExitValueEmitted ==
  /\ CycleEnded => \E i \in DOMAIN cycle : cycle[i] = x
  /\ \A i \in 1..(Len(output) - 1) : output[i] = 377 => output[i + 1] = 0

\* C2 amended: the value of x that makes the inner condition false is 377 and
\* is not emitted; the last value emitted before the restart is 233, and the
\* value emitted right after 233 is 0.
C2_ExitValueNotEmitted ==
  /\ CycleEnded =>
       /\ x = 377
       /\ ~Continue(x)
       /\ \A i \in DOMAIN cycle : cycle[i] # x
       /\ cycle[Len(cycle)] = 233
  /\ \A i \in DOMAIN output : output[i] # 377
  /\ \A i \in 1..(Len(output) - 1) : output[i] = 233 => output[i + 1] = 0

C2_Witness ==
  /\ CycleEnded
  /\ \E i \in 1..(Len(output) - 1) : output[i] = 233 /\ output[i + 1] = 0

\* ---- C3 ----
\* C3: every value passed to printf is a non-negative integer.
C3_NeverNegative ==
  /\ pc = "emit" => x \in Nat
  /\ \A i \in DOMAIN output : output[i] \in Nat
  /\ \A i \in DOMAIN cycle : cycle[i] \in Nat

C3_Witness == pc = "update" /\ Len(output) >= 2 /\ output[Len(output)] = x

\* ---- C4 ----
\* C4 as stated: any two cycles emit the same values in the same order, and
\* each cycle has exactly 15 emissions.
C4_IdenticalCyclesOf15 ==
  /\ \A i, j \in DOMAIN cycles : cycles[i] = cycles[j]
  /\ \A i \in DOMAIN cycles : Len(cycles[i]) = 15
  /\ CycleEnded => Len(cycle) = 15

\* C4 amended: any two cycles emit the same values in the same order, and
\* each cycle has exactly 14 emissions; the values x, y, z left by an earlier
\* cycle (or by the missing initialisation) do not change what a cycle emits.
C4_IdenticalCyclesOf14 ==
  /\ \A i, j \in DOMAIN cycles : cycles[i] = cycles[j]
  /\ \A i \in DOMAIN cycles : Len(cycles[i]) = 14 /\ IsPrefix(cycle, cycles[i])
  /\ CycleEnded => Len(cycle) = 14

\* A second cycle has ended, and it started with the stale z = 610.
C4_Witness == Len(cycles) >= 2 /\ CycleEnded /\ z = 610

\* ---- C5 ----
\* C5: control never reaches the point after the outer loop, and every
\* reachable state has a successor step.
C5_NeverTerminates == pc # "exit" /\ ENABLED Next

C5_Witness == Len(cycles) = MaxCycles /\ Len(output) = MaxLines /\ CycleEnded

\* ---- C6 ----
\* C6: once the first reset has run, x, y and z are within the int range and
\* the sum x + y computed by the update step fits an int.
C6_NoOverflow ==
  /\ pc # "reset" => InRange(x) /\ InRange(y) /\ InRange(z)
  /\ pc = "update" => AddFits(x, y)

C6_Witness == pc = "test" /\ x = 377 /\ y = 610 /\ z = 610

\* ---- C7 ----
\* C7: every run of the inner loop ends and is followed by the reset, so the
\* reset and the emission of 0 happen infinitely often.
C7_InnerLoopTerminates ==
  /\ (pc = "emit" /\ cycle = <<>>) ~> CycleEnded
  /\ []<>(pc = "emit" /\ cycle = <<>> /\ x = 0 /\ y = 1)
  /\ []<>(pc = "update" /\ cycle = <<0>>)

C7_Witness == CycleEnded /\ Len(cycles) >= 2

\* ---- C8 ----
\* C8: after the update the loop goes on to emit (without reset) iff
\* x < 255; otherwise the next step is the reset, which sets x = 0 and y = 1
\* before anything is emitted, so a cycle's first emission is made from
\* x = 0, y = 1.
C8_TestStep ==
  pc = "test" =>
    /\ (x < 255) <=> (pc' = "emit")
    /\ (x >= 255) <=> (pc' = "reset")
    /\ x' = x /\ y' = y /\ output' = output /\ cycle' = cycle
C8_ResetStep ==
  pc = "reset" =>
    /\ x' = 0 /\ y' = 1 /\ pc' = "emit"
    /\ output' = output /\ cycle' = <<>>
C8_FirstEmit ==
  (pc = "emit" /\ pc' = "update" /\ cycle = <<>>) =>
    /\ x = 0 /\ y = 1
    /\ cycle' = <<0>>
C8_ContinueIffBelowLimit ==
  [][C8_TestStep /\ C8_ResetStep /\ C8_FirstEmit]_vars

C8_Witness == pc = "update" /\ cycle = <<0>> /\ Len(cycles) >= 1

\* ---- C9 ----
\* C9: every emitted value is below 255; the emit step runs only with x in
\* 0..233, and x >= 255 is held only between the update and the next reset.
C9_EmittedBelowLimit ==
  /\ \A i \in DOMAIN output : output[i] < 255
  /\ \A i \in DOMAIN cycle : cycle[i] < 255
  /\ pc = "emit" => x \in 0..233
  /\ x >= 255 => pc \in {"test", "reset"}

C9_Witness == pc = "test" /\ x >= 255 /\ Len(output) >= 14

\* ---- C10 ----
\* C10: at every emit step (x, y) = (F(k), F(k+1)) for some k >= 0, hence
\* 0 <= x <= y; each update step sets z to x + y, x to the old y and y to z
\* and changes nothing else.
C10_EmitState ==
  pc = "emit" =>
    /\ \E k \in 0..MaxFibIndex : x = Fib(k) /\ y = Fib(k + 1)
    /\ 0 <= x /\ x <= y
C10_UpdateStep ==
  pc = "update" =>
    /\ z' = x + y /\ x' = y /\ y' = z'
    /\ output' = output /\ cycle' = cycle /\ cycles' = cycles
    /\ pc' = "test"
C10_FibonacciPairs == [][C10_EmitState /\ C10_UpdateStep]_vars

C10_Witness == pc = "emit" /\ x = Fib(13) /\ y = Fib(14) /\ Len(cycles) >= 1

====
